---- MODULE Spec2Model ----
(***************************************************************************)
(* Loan store (loanService.ts) and audit log (auditLogService.ts) of the   *)
(* Tredgate Loan application, as a state machine over the two localStorage *)
(* slots 'tredgate_loans' and 'tredgate_audit_log'.                        *)
(*                                                                         *)
(* JavaScript numbers are tagged records so that NaN and the JSON null a   *)
(* non-finite number is stored as are values of their own; strings that    *)
(* the code trims are sequences of characters; an id is the pair of the    *)
(* Date.now() reading and the Math.random() draw it is built from.         *)
(***************************************************************************)
EXTENDS Integers, Sequences, FiniteSets, TLC

VARIABLES
    loansSlot,   \* localStorage['tredgate_loans']
    auditSlot,   \* localStorage['tredgate_audit_log']
    now,         \* the clock behind Date.now() and new Date()
    steps,       \* number of calls that have written to storage
    last,        \* the last service call: its arguments and its outcome
    hist,        \* the entries handed to the audit log since it was last
                 \* empty, evicted ones included
    tabs         \* the browser tabs that run the application: what each
                 \* shows and the handler it is running

vars == <<loansSlot, auditSlot, now, steps, last, hist, tabs>>

(***************************************************************************)
(* Bounds of the model.                                                    *)
(***************************************************************************)
MaxSteps == 3
MaxTime == 1
MaxLoans == 2
MaxFiltered == 2

(***************************************************************************)
(* Program constants.                                                      *)
(***************************************************************************)
MAX_ENTRIES == 500
AmountLimit == 100000
TermLimit == 60

(***************************************************************************)
(* JavaScript numbers and their JSON image.                                *)
(***************************************************************************)
Fin(n) == [k |-> "fin", v |-> n]
NaN == [k |-> "nan", v |-> 0]
Infinity == [k |-> "inf", v |-> 0]
Null == [k |-> "null", v |-> 0]

\* ToNumber of the relational operators: null compares as 0, NaN stays NaN.
ToNumber(x) == IF x.k = "null" THEN Fin(0) ELSE x

\* x <= n, x < n, x > n for a finite n as JavaScript evaluates them: all
\* false when x is NaN, and Infinity is above every n.
JsLe(x, n) == ToNumber(x).k = "fin" /\ ToNumber(x).v <= n
JsLt(x, n) == ToNumber(x).k = "fin" /\ ToNumber(x).v < n
JsGt(x, n) == \/ ToNumber(x).k = "fin" /\ ToNumber(x).v > n
              \/ x.k = "inf"

NegInfinity == [k |-> "-inf", v |-> 0]

\* The sign of a number that is not NaN: -1, 0 or 1.
Sign(x) ==
    IF ToNumber(x).k = "inf" THEN 1
    ELSE IF ToNumber(x).k = "-inf" THEN -1
    ELSE IF ToNumber(x).v > 0 THEN 1
    ELSE IF ToNumber(x).v < 0 THEN -1 ELSE 0

IsFinite(x) == ToNumber(x).k = "fin"
IsNaN(x) == ToNumber(x).k = "nan"

\* x + y and x * y as JavaScript evaluates them (null is 0).
JsAdd(x, y) ==
    IF IsNaN(x) \/ IsNaN(y) THEN NaN
    ELSE IF IsFinite(x) /\ IsFinite(y)
    THEN Fin(ToNumber(x).v + ToNumber(y).v)
    ELSE IF ~IsFinite(x) /\ ~IsFinite(y) /\ Sign(x) # Sign(y) THEN NaN
    ELSE IF ~IsFinite(x) THEN ToNumber(x) ELSE ToNumber(y)

JsMul(x, y) ==
    IF IsNaN(x) \/ IsNaN(y) THEN NaN
    ELSE IF IsFinite(x) /\ IsFinite(y)
    THEN Fin(ToNumber(x).v * ToNumber(y).v)
    ELSE IF Sign(x) * Sign(y) = 0 THEN NaN
    ELSE IF Sign(x) * Sign(y) > 0 THEN Infinity ELSE NegInfinity

\* The result of a division: a fraction n/d in lowest terms with d > 0, or
\* a value that is no finite number.
RECURSIVE GCD(_, _)
GCD(a, b) == IF b = 0 THEN a ELSE GCD(b, a % b)
Abs(n) == IF n < 0 THEN -n ELSE n
Fraction(n, d) ==
    LET g == GCD(Abs(n), Abs(d))
        s == IF d < 0 THEN -1 ELSE 1
    IN [k |-> "fin", n |-> (s * n) \div g, d |-> (s * d) \div g]
NotFinite(k) == [k |-> k, n |-> 0, d |-> 1]

\* x / y as JavaScript evaluates it: a zero divisor gives NaN for 0 / 0 and
\* an infinity otherwise.
JsDiv(x, y) ==
    IF IsNaN(x) \/ IsNaN(y) THEN NotFinite("nan")
    ELSE IF ~IsFinite(x) /\ ~IsFinite(y) THEN NotFinite("nan")
    ELSE IF ~IsFinite(y) THEN Fraction(0, 1)
    ELSE IF ~IsFinite(x)
    THEN NotFinite(IF Sign(x) * (IF Sign(y) < 0 THEN -1 ELSE 1) > 0
                   THEN "inf" ELSE "-inf")
    ELSE IF ToNumber(y).v = 0
    THEN (IF Sign(x) = 0 THEN NotFinite("nan")
          ELSE NotFinite(IF Sign(x) > 0 THEN "inf" ELSE "-inf"))
    ELSE Fraction(ToNumber(x).v, ToNumber(y).v)

\* JSON.parse(JSON.stringify(x)) of a number: NaN and Infinity are written
\* as null.
JsonNumber(x) == IF x.k \in {"nan", "inf"} THEN Null ELSE x

(***************************************************************************)
(* Strings: sequences of characters, String.prototype.trim.                *)
(***************************************************************************)
IsSpace(c) == c = " "

RECURSIVE TrimStart(_)
TrimStart(s) ==
    IF s = <<>> THEN s
    ELSE IF IsSpace(Head(s)) THEN TrimStart(Tail(s)) ELSE s

RECURSIVE TrimEnd(_)
TrimEnd(s) ==
    IF s = <<>> THEN s
    ELSE IF IsSpace(s[Len(s)]) THEN TrimEnd(SubSeq(s, 1, Len(s) - 1)) ELSE s

trim(s) == TrimEnd(TrimStart(s))

\* String.prototype.toLowerCase with no change of case.
toLowerCase_Identity(s) == s

\* String.prototype.toLowerCase, character by character.
Lower(c) == IF c = "A" THEN "a" ELSE IF c = "B" THEN "b" ELSE c
toLowerCase(s) == [i \in 1..Len(s) |-> Lower(s[i])]

\* String.prototype.includes: part occurs in s at some position.
RECURSIVE includes(_, _)
includes(s, part) ==
    IF Len(part) > Len(s) THEN FALSE
    ELSE IF SubSeq(s, 1, Len(part)) = part THEN TRUE
    ELSE includes(Tail(s), part)

\* Array.prototype.join: the parts with sep between each two of them.
RECURSIVE join(_, _)
join(parts, sep) ==
    IF Len(parts) <= 1 THEN parts
    ELSE <<Head(parts), sep>> \o join(Tail(parts), sep)

(***************************************************************************)
(* Ids, records and the storage slots.                                     *)
(***************************************************************************)
\* Date.now().toString(36) + Math.random().toString(36).substring(2, 9):
\* the text is determined by the clock reading t and the random draw r.
generateId(t, r) == <<t, r>>

NoId == <<-1, -1>>
NoStatus == "null"
LoanStatus == {"pending", "approved", "rejected"}

NoInput == [applicantName |-> <<>>, amount |-> Null, termMonths |-> Null,
            interestRate |-> Null]
NoLoan == [id |-> NoId, applicantName |-> <<>>, amount |-> Null,
           termMonths |-> Null, interestRate |-> Null, status |-> NoStatus,
           createdAt |-> -1]
NoError == [kind |-> "none", text |-> "", id |-> NoId]

\* A slot is absent, holds the JSON text of an array, holds JSON text of
\* something that is no array, or holds text JSON.parse rejects.
Absent == [kind |-> "absent", arr |-> <<>>]
Arr(s) == [kind |-> "array", arr |-> s]
NonArray == [kind |-> "nonarray", arr |-> <<>>]
Unparsable == [kind |-> "unparsable", arr |-> <<>>]

\* JSON.stringify of a loan: every number field goes through JsonNumber.
JsonLoan(l) == [l EXCEPT !.amount = JsonNumber(@),
                         !.termMonths = JsonNumber(@),
                         !.interestRate = JsonNumber(@)]
JsonLoans(ls) == [i \in 1..Len(ls) |-> JsonLoan(ls[i])]

\* getLoans / getAuditLog: the parsed array; [] when the slot is absent or
\* unparsable.  IsArray is false when what they return is no array, so that
\* the caller's push / findIndex / find throws a TypeError.
IsArray(slot) == slot.kind # "nonarray"
getLoans(slot) == IF slot.kind = "array" THEN slot.arr ELSE <<>>
getAuditLog(slot) == IF slot.kind = "array" THEN slot.arr ELSE <<>>

saveLoans(ls) == Arr(JsonLoans(ls))

\* saveAuditLog with the FIFO cleanup left out.
saveAuditLog_NoTrim(entries) == Arr(entries)

\* saveAuditLog keeping the first MAX_ENTRIES: entries.slice(0, MAX_ENTRIES).
saveAuditLog_KeepOldest(entries) ==
    Arr(IF Len(entries) > MAX_ENTRIES
        THEN SubSeq(entries, 1, MAX_ENTRIES)
        ELSE entries)

\* entries.slice(-MAX_ENTRIES) when entries.length > MAX_ENTRIES
saveAuditLog(entries) ==
    Arr(IF Len(entries) > MAX_ENTRIES
        THEN SubSeq(entries, Len(entries) - MAX_ENTRIES + 1, Len(entries))
        ELSE entries)

(***************************************************************************)
(* Audit log service.                                                      *)
(***************************************************************************)
\* The details text of an entry: the template it is built from and the
\* values interpolated into it (Null, NoStatus, <<>> for what the template
\* does not use).
Details(tpl, name, amount, term, status, reasons) ==
    [tpl |-> tpl, name |-> name, amount |-> amount, term |-> term,
     status |-> status, reasons |-> reasons]

\* Intl.NumberFormat(...).format(amount) with no fraction digits: null
\* formats as 0, NaN and Infinity as themselves, a whole number as itself.
formatCurrencyForLog(amount) == ToNumber(amount)

CreateAuditLogInput(actionType, loanId, applicantName, previousStatus, newStatus, details) ==
    [actionType |-> actionType, loanId |-> loanId,
     applicantName |-> applicantName, previousStatus |-> previousStatus,
     newStatus |-> newStatus, details |-> details]

\* { id: generateId(), timestamp: new Date().toISOString(), ...input }
NewEntry(input, t, r) ==
    [id |-> generateId(t, r), timestamp |-> t,
     actionType |-> input.actionType, loanId |-> input.loanId,
     applicantName |-> input.applicantName,
     previousStatus |-> input.previousStatus,
     newStatus |-> input.newStatus, details |-> input.details]

\* createAuditLogEntry leaving alone a slot whose content does not parse.
createAuditLogEntry_KeepsUnparsable(slot, input, t, r) ==
    IF slot.kind = "array" \/ slot.kind = "absent"
    THEN saveAuditLog(Append(getAuditLog(slot), NewEntry(input, t, r)))
    ELSE slot

\* The audit slot after createAuditLogEntry(input); when getAuditLog returns
\* no array, entries.push throws and the slot is left as it was.
createAuditLogEntry(slot, input, t, r) ==
    IF IsArray(slot)
    THEN saveAuditLog(Append(getAuditLog(slot), NewEntry(input, t, r)))
    ELSE slot

(***************************************************************************)
(* Loan service.                                                           *)
(***************************************************************************)
NameMessage == "Applicant name is required"
AmountMessage == "Amount must be greater than 0"
TermMessage == "Term months must be greater than 0"
RateMessage == "Interest rate cannot be negative"

\* The four checks of createLoanApplication, in the order of the code; ""
\* when none throws.
ValidationMessage(input) ==
    IF input.applicantName = <<>> \/ trim(input.applicantName) = <<>>
    THEN NameMessage
    ELSE IF JsLe(input.amount, 0) THEN AmountMessage
    ELSE IF JsLe(input.termMonths, 0) THEN TermMessage
    ELSE IF JsLt(input.interestRate, 0) THEN RateMessage
    ELSE ""

ValidationError(input) ==
    [kind |-> "Error", text |-> ValidationMessage(input), id |-> NoId]

\* The not-found error with a message that leaves the id out.
NotFoundError_NoId(id) == [kind |-> "Error", text |-> "Loan not found", id |-> NoId]

\* new Error(`Loan with id ${id} not found`)
NotFoundError(id) == [kind |-> "Error", text |-> "Loan with id ${id} not found", id |-> id]

\* push / findIndex / find called on a value that is no array
TypeError == [kind |-> "TypeError", text |-> "is not a function", id |-> NoId]

NewLoan(input, t, r) ==
    [id |-> generateId(t, r),
     applicantName |-> trim(input.applicantName),
     amount |-> input.amount,
     termMonths |-> input.termMonths,
     interestRate |-> input.interestRate,
     status |-> "pending",
     createdAt |-> t]

\* loans.findIndex(loan => loan.id === id): the first index, -1 when none
findIndex(loans, id) ==
    IF \E i \in 1..Len(loans) : loans[i].id = id
    THEN CHOOSE i \in 1..Len(loans) :
            /\ loans[i].id = id
            /\ \A j \in 1..(i - 1) : loans[j].id # id
    ELSE -1

\* loans.splice(loanIndex): with no count, everything from loanIndex on goes.
splice_ToEnd(loans, i) == SubSeq(loans, 1, i - 1)

\* loans.splice(loanIndex, 1)
splice(loans, i) == SubSeq(loans, 1, i - 1) \o SubSeq(loans, i + 1, Len(loans))

\* The entries handed to the log once createAuditLogEntry(input) has run:
\* the call starts from [] when the slot holds no stored array.
Handed(slot, h, input, t, r) ==
    IF IsArray(slot)
    THEN Append(IF slot.kind = "array" THEN h ELSE <<>>, NewEntry(input, t, r))
    ELSE h

\* The Math.random() draw of an audit entry's id: no operation reads an
\* entry's id, so one value stands for all.
EntryRand == 0

\* What a read returns: whether it is an array, and its items.
NoList == [array |-> TRUE, items |-> <<>>]

\* An optional property of an object: left out (undefined), or a value.
Undefined == [present |-> FALSE, v |-> <<>>]
Some(v) == [present |-> TRUE, v |-> v]

\* AuditLogFilter: { actionTypes?, searchText? }
AuditLogFilter(actionTypes, searchText) ==
    [actionTypes |-> actionTypes, searchText |-> searchText]
NoFilter == AuditLogFilter(Undefined, Undefined)

\* A call: its name, its arguments (entries an array argument, filter the
\* criteria of filterAuditLog, loan a loan argument), the error it throws
\* and what it returns (ret a loan, list an array, num a number).
Call(op, input, id, status, err, ret) ==
    [op |-> op, input |-> input, id |-> id, status |-> status, err |-> err,
     ret |-> ret, entries |-> <<>>, filter |-> NoFilter, loan |-> NoLoan,
     list |-> NoList, num |-> NotFinite("none")]

\* The tabs that share the storage.
Tabs == {1, 2}

NoAuditInput ==
    CreateAuditLogInput("none", NoId, <<>>, NoStatus, NoStatus,
        Details("none", <<>>, Null, Null, NoStatus, <<>>))

\* A tab with no handler running: loans is the list App.vue shows, error
\* the text LoanForm shows, uncaught the error that left a handler of
\* App.vue; call, callLoans, input and callEntries are the service call a
\* running handler has made and its local values.
IdleTab ==
    [pc |-> "idle", loans |-> <<>>, error |-> "", uncaught |-> NoError,
     call |-> Call("none", NoInput, NoId, NoStatus, NoError, NoLoan),
     callLoans |-> <<>>, input |-> NoAuditInput, callEntries |-> <<>>]

\* A call that throws before it writes anything.
Throws(op, input, id, status, err) ==
    /\ last' = Call(op, input, id, status, err, NoLoan)
    /\ UNCHANGED <<loansSlot, auditSlot, now, steps, hist, tabs>>

\* The two writes of a mutating call: saveLoans, then createAuditLogEntry,
\* which throws after the first write when the audit slot holds no array.
Writes(op, input, id, status, loans, auditInput, ret) ==
    /\ loansSlot' = saveLoans(loans)
    /\ auditSlot' = createAuditLogEntry(auditSlot, auditInput, now, EntryRand)
    /\ hist' = Handed(auditSlot, hist, auditInput, now, EntryRand)
    /\ steps' = steps + 1
    /\ last' = Call(op, input, id, status,
                    IF IsArray(auditSlot) THEN NoError ELSE TypeError,
                    IF IsArray(auditSlot) THEN ret ELSE NoLoan)
    /\ UNCHANGED <<now, tabs>>

\* A call is made while the run goes on: a run ends at a call that throws
\* (the store is as before it, so what could follow it follows the state
\* before it too) and after MaxSteps writing calls.
Running == steps < MaxSteps /\ last.err = NoError

\* createLoanApplication from the first write on: push, saveLoans, the
\* audit entry, return newLoan.
CreateAccepted(input, r) ==
    LET newLoan == NewLoan(input, now, r)
    IN Writes("createLoanApplication", input, NoId, NoStatus,
              Append(getLoans(loansSlot), newLoan),
              CreateAuditLogInput("create", newLoan.id,
                  newLoan.applicantName, NoStatus, "pending",
                  Details("created", <<>>,
                      formatCurrencyForLog(newLoan.amount),
                      newLoan.termMonths, NoStatus, <<>>)),
              newLoan)

\* createLoanApplication validating after loans.push and saveLoans.
CreateLoanApplication_ValidateLate(input, r) ==
    /\ Running
    /\ Len(getLoans(loansSlot)) < MaxLoans
    /\ IF ~IsArray(loansSlot)
       THEN Throws("createLoanApplication", input, NoId, NoStatus, TypeError)
       ELSE IF ValidationMessage(input) # ""
       THEN /\ loansSlot' = saveLoans(Append(getLoans(loansSlot),
                                             NewLoan(input, now, r)))
            /\ last' = Call("createLoanApplication", input, NoId, NoStatus,
                            ValidationError(input), NoLoan)
            /\ UNCHANGED <<auditSlot, now, steps, hist, tabs>>
       ELSE CreateAccepted(input, r)

CreateLoanApplication(input, r) ==
    /\ Running
    /\ Len(getLoans(loansSlot)) < MaxLoans
    /\ IF ValidationMessage(input) # ""
       THEN Throws("createLoanApplication", input, NoId, NoStatus,
                   ValidationError(input))
       ELSE IF ~IsArray(loansSlot)
       THEN Throws("createLoanApplication", input, NoId, NoStatus, TypeError)
       ELSE CreateAccepted(input, r)

\* The action type of a status change that is always 'approve'.
actionType_Approve(status) == "approve"

\* status === 'approved' ? 'approve' : 'reject'
actionType(status) == IF status = "approved" THEN "approve" ELSE "reject"

\* updateLoanStatus taking the loan out and pushing the changed record at
\* the end of the collection.
UpdateLoanStatus_Reinsert(id, status) ==
    /\ Running
    /\ LET loans == getLoans(loansSlot)
           loanIndex == findIndex(loans, id)
       IN IF ~IsArray(loansSlot)
          THEN Throws("updateLoanStatus", NoInput, id, status, TypeError)
          ELSE IF loanIndex = -1
          THEN Throws("updateLoanStatus", NoInput, id, status,
                      NotFoundError(id))
          ELSE LET loan == loans[loanIndex]
                   previousStatus == loan.status
               IN Writes("updateLoanStatus", NoInput, id, status,
                         Append(splice(loans, loanIndex),
                                [loan EXCEPT !.status = status]),
                         CreateAuditLogInput(
                             actionType(status),
                             loan.id, loan.applicantName, previousStatus,
                             status,
                             Details("status", loan.applicantName,
                                 formatCurrencyForLog(loan.amount), Null,
                                 status, <<>>)),
                         NoLoan)

\* updateLoanStatus reading previousStatus after loan.status = status.
UpdateLoanStatus_PrevAfter(id, status) ==
    /\ Running
    /\ LET loans == getLoans(loansSlot)
           loanIndex == findIndex(loans, id)
       IN IF ~IsArray(loansSlot)
          THEN Throws("updateLoanStatus", NoInput, id, status, TypeError)
          ELSE IF loanIndex = -1
          THEN Throws("updateLoanStatus", NoInput, id, status,
                      NotFoundError(id))
          ELSE LET loan == loans[loanIndex]
               IN Writes("updateLoanStatus", NoInput, id, status,
                         [loans EXCEPT ![loanIndex].status = status],
                         CreateAuditLogInput(
                             actionType(status),
                             loan.id, loan.applicantName, status, status,
                             Details("status", loan.applicantName,
                                 formatCurrencyForLog(loan.amount), Null,
                                 status, <<>>)),
                         NoLoan)

UpdateLoanStatus(id, status) ==
    /\ Running
    /\ LET loans == getLoans(loansSlot)
           loanIndex == findIndex(loans, id)
       IN IF ~IsArray(loansSlot)
          THEN Throws("updateLoanStatus", NoInput, id, status, TypeError)
          ELSE IF loanIndex = -1
          THEN Throws("updateLoanStatus", NoInput, id, status,
                      NotFoundError(id))
          ELSE LET loan == loans[loanIndex]
                   previousStatus == loan.status
               IN Writes("updateLoanStatus", NoInput, id, status,
                         [loans EXCEPT ![loanIndex].status = status],
                         CreateAuditLogInput(
                             actionType(status),
                             loan.id, loan.applicantName, previousStatus,
                             status,
                             Details("status", loan.applicantName,
                                 formatCurrencyForLog(loan.amount), Null,
                                 status, <<>>)),
                         NoLoan)

\* The decision rule of autoDecideLoan and the reasons it gives.
Decision(loan) ==
    IF JsLe(loan.amount, AmountLimit) /\ JsLe(loan.termMonths, TermLimit)
    THEN "approved" ELSE "rejected"

\* The reasons of a rejection as an else-if chain: the first bound only.
Reasons_FirstOnly(loan) ==
    IF Decision(loan) = "approved"
    THEN <<"amount <= $100,000 and term <= 60 months">>
    ELSE IF JsGt(loan.amount, AmountLimit) THEN <<"amount > $100,000">>
    ELSE IF JsGt(loan.termMonths, TermLimit) THEN <<"term > 60 months">>
    ELSE <<>>

Reasons(loan) ==
    IF Decision(loan) = "approved"
    THEN <<"amount <= $100,000 and term <= 60 months">>
    ELSE (IF JsGt(loan.amount, AmountLimit)
          THEN <<"amount > $100,000">> ELSE <<>>)
         \o (IF JsGt(loan.termMonths, TermLimit)
             THEN <<"term > 60 months">> ELSE <<>>)

\* autoDecideLoan refusing a loan that is no longer pending.
AutoDecideLoan_PendingOnly(id) ==
    /\ Running
    /\ LET loans == getLoans(loansSlot)
           loanIndex == findIndex(loans, id)
       IN IF ~IsArray(loansSlot)
          THEN Throws("autoDecideLoan", NoInput, id, NoStatus, TypeError)
          ELSE IF loanIndex = -1
          THEN Throws("autoDecideLoan", NoInput, id, NoStatus,
                      NotFoundError(id))
          ELSE IF loans[loanIndex].status # "pending"
          THEN Throws("autoDecideLoan", NoInput, id, NoStatus,
                      [kind |-> "Error", text |-> "Loan is already decided",
                       id |-> id])
          ELSE LET loan == loans[loanIndex]
                   previousStatus == loan.status
                   newStatus == Decision(loan)
               IN Writes("autoDecideLoan", NoInput, id, NoStatus,
                         [loans EXCEPT ![loanIndex].status = newStatus],
                         CreateAuditLogInput("auto-decide", loan.id,
                             loan.applicantName, previousStatus, newStatus,
                             Details("auto", <<>>, Null, Null, newStatus,
                                 join(Reasons(loan), " and "))),
                         NoLoan)

AutoDecideLoan(id) ==
    /\ Running
    /\ LET loans == getLoans(loansSlot)
           loanIndex == findIndex(loans, id)
       IN IF ~IsArray(loansSlot)
          THEN Throws("autoDecideLoan", NoInput, id, NoStatus, TypeError)
          ELSE IF loanIndex = -1
          THEN Throws("autoDecideLoan", NoInput, id, NoStatus,
                      NotFoundError(id))
          ELSE LET loan == loans[loanIndex]
                   previousStatus == loan.status
                   newStatus == Decision(loan)
               IN Writes("autoDecideLoan", NoInput, id, NoStatus,
                         [loans EXCEPT ![loanIndex].status = newStatus],
                         CreateAuditLogInput("auto-decide", loan.id,
                             loan.applicantName, previousStatus, newStatus,
                             Details("auto", <<>>, Null, Null, newStatus,
                                 join(Reasons(loan), " and "))),
                         NoLoan)

\* deleteLoan calling saveLoans(loans) before it looks for the id.
DeleteLoan_SavesFirst(id) ==
    /\ Running
    /\ LET loans == getLoans(loansSlot)
           loanIndex == findIndex(loans, id)
       IN IF ~IsArray(loansSlot)
          THEN Throws("deleteLoan", NoInput, id, NoStatus, TypeError)
          ELSE IF loanIndex = -1
          THEN /\ loansSlot' = saveLoans(loans)
               /\ last' = Call("deleteLoan", NoInput, id, NoStatus,
                               NotFoundError(id), NoLoan)
               /\ UNCHANGED <<auditSlot, now, steps, hist, tabs>>
          ELSE LET loan == loans[loanIndex]
               IN Writes("deleteLoan", NoInput, id, NoStatus,
                         splice(loans, loanIndex),
                         CreateAuditLogInput("delete", id,
                             loan.applicantName, loan.status, NoStatus,
                             Details("deleted", loan.applicantName,
                                 formatCurrencyForLog(loan.amount), Null,
                                 loan.status, <<>>)),
                         NoLoan)

\* deleteLoan that also drops the log's earlier entries of the deleted loan.
DeleteLoan_PurgesEntries(id) ==
    /\ Running
    /\ LET loans == getLoans(loansSlot)
           loanIndex == findIndex(loans, id)
       IN IF ~IsArray(loansSlot)
          THEN Throws("deleteLoan", NoInput, id, NoStatus, TypeError)
          ELSE IF loanIndex = -1
          THEN Throws("deleteLoan", NoInput, id, NoStatus, NotFoundError(id))
          ELSE LET loan == loans[loanIndex]
                   kept == SelectSeq(getAuditLog(auditSlot),
                                     LAMBDA e : e.loanId # id)
                   input == CreateAuditLogInput("delete", id,
                                loan.applicantName, loan.status, NoStatus,
                                Details("deleted", loan.applicantName,
                                    formatCurrencyForLog(loan.amount), Null,
                                    loan.status, <<>>))
               IN /\ loansSlot' = saveLoans(splice(loans, loanIndex))
                  /\ auditSlot' = createAuditLogEntry(Arr(kept), input, now,
                                                      EntryRand)
                  /\ hist' = Handed(auditSlot, hist, input, now, EntryRand)
                  /\ steps' = steps + 1
                  /\ last' = Call("deleteLoan", NoInput, id, NoStatus,
                                  NoError, NoLoan)
                  /\ UNCHANGED <<now, tabs>>

DeleteLoan(id) ==
    /\ Running
    /\ LET loans == getLoans(loansSlot)
           loanIndex == findIndex(loans, id)
       IN IF ~IsArray(loansSlot)
          THEN Throws("deleteLoan", NoInput, id, NoStatus, TypeError)
          ELSE IF loanIndex = -1
          THEN Throws("deleteLoan", NoInput, id, NoStatus, NotFoundError(id))
          ELSE LET loan == loans[loanIndex]
               IN Writes("deleteLoan", NoInput, id, NoStatus,
                         splice(loans, loanIndex),
                         CreateAuditLogInput("delete", id,
                             loan.applicantName, loan.status, NoStatus,
                             Details("deleted", loan.applicantName,
                                 formatCurrencyForLog(loan.amount), Null,
                                 loan.status, <<>>)),
                         NoLoan)

\* createAuditLogEntry called by itself.
CreateAuditLogEntry(input) ==
    /\ Running
    /\ auditSlot' = createAuditLogEntry(auditSlot, input, now, EntryRand)
    /\ hist' = Handed(auditSlot, hist, input, now, EntryRand)
    /\ steps' = steps + (IF IsArray(auditSlot) THEN 1 ELSE 0)
    /\ last' = Call("createAuditLogEntry", NoInput, input.loanId, NoStatus,
                    IF IsArray(auditSlot) THEN NoError ELSE TypeError, NoLoan)
    /\ UNCHANGED <<loansSlot, now, tabs>>

\* saveAuditLog called by itself with the caller's array.
SaveAuditLog(entries) ==
    /\ Running
    /\ auditSlot' = saveAuditLog(entries)
    /\ hist' = entries
    /\ steps' = steps + 1
    /\ last' = [Call("saveAuditLog", NoInput, NoId, NoStatus, NoError,
                     NoLoan) EXCEPT !.entries = entries]
    /\ UNCHANGED <<loansSlot, now, tabs>>

\* clearAuditLog as localStorage.clear(): every key is removed.
ClearAuditLog_AllKeys ==
    /\ Running
    /\ auditSlot' = Absent
    /\ loansSlot' = Absent
    /\ hist' = <<>>
    /\ steps' = steps + 1
    /\ last' = Call("clearAuditLog", NoInput, NoId, NoStatus, NoError, NoLoan)
    /\ UNCHANGED <<now, tabs>>

\* localStorage.removeItem(STORAGE_KEY)
ClearAuditLog ==
    /\ Running
    /\ auditSlot' = Absent
    /\ hist' = <<>>
    /\ steps' = steps + 1
    /\ last' = Call("clearAuditLog", NoInput, NoId, NoStatus, NoError, NoLoan)
    /\ UNCHANGED <<loansSlot, now, tabs>>

SyntaxError == [kind |-> "SyntaxError", text |-> "Unexpected token",
                id |-> NoId]

\* A read with no catch block: JSON.parse's error reaches the caller.
ParseError_Uncaught(slot) ==
    IF slot.kind = "unparsable" THEN SyntaxError ELSE NoError

\* The error a read lets out to its caller: none, as the catch block
\* returns [] when JSON.parse throws.
ParseError(slot) == NoError

\* getLoans() called by itself.
GetLoans ==
    /\ Running
    /\ last' = [Call("getLoans", NoInput, NoId, NoStatus,
                     ParseError(loansSlot), NoLoan)
                EXCEPT !.list = IF ParseError(loansSlot) = NoError
                                THEN [array |-> IsArray(loansSlot),
                                      items |-> getLoans(loansSlot)]
                                ELSE NoList]
    /\ UNCHANGED <<loansSlot, auditSlot, now, steps, hist, tabs>>

\* getAuditLog() called by itself.
GetAuditLog ==
    /\ Running
    /\ last' = [Call("getAuditLog", NoInput, NoId, NoStatus,
                     ParseError(auditSlot), NoLoan)
                EXCEPT !.list = IF ParseError(auditSlot) = NoError
                                THEN [array |-> IsArray(auditSlot),
                                      items |-> getAuditLog(auditSlot)]
                                ELSE NoList]
    /\ UNCHANGED <<loansSlot, auditSlot, now, steps, hist, tabs>>

\* saveLoans called by itself with the caller's array.
SaveLoans(loans) ==
    /\ Running
    /\ loansSlot' = saveLoans(loans)
    /\ steps' = steps + 1
    /\ last' = [Call("saveLoans", NoInput, NoId, NoStatus, NoError, NoLoan)
                EXCEPT !.entries = loans]
    /\ UNCHANGED <<auditSlot, now, hist, tabs>>

\* filterAuditLog(entries, filter): the entries of the action types, then
\* of those the ones whose loanId, applicantName or details holds the
\* search text.
filterAuditLog(entries, filter) ==
    LET byType ==
            IF filter.actionTypes.present /\ Len(filter.actionTypes.v) > 0
            THEN SelectSeq(entries,
                     LAMBDA entry :
                         \E k \in 1..Len(filter.actionTypes.v) :
                             filter.actionTypes.v[k] = entry.actionType)
            ELSE entries
        searchLower == trim(toLowerCase(filter.searchText.v))
    IN IF /\ filter.searchText.present
          /\ filter.searchText.v # <<>>
          /\ trim(filter.searchText.v) # <<>>
       THEN SelectSeq(byType,
                LAMBDA entry :
                    \/ includes(toLowerCase(entry.loanId), searchLower)
                    \/ includes(toLowerCase(entry.applicantName),
                                searchLower)
                    \/ includes(toLowerCase(entry.details), searchLower))
       ELSE byType

FilterAuditLog(entries, filter) ==
    /\ Running
    /\ last' = [Call("filterAuditLog", NoInput, NoId, NoStatus, NoError,
                     NoLoan)
                EXCEPT !.entries = entries, !.filter = filter,
                       !.list = [array |-> TRUE,
                                 items |-> filterAuditLog(entries, filter)]]
    /\ UNCHANGED <<loansSlot, auditSlot, now, steps, hist, tabs>>

\* calculateMonthlyPayment with the quotient rounded to a whole number:
\* Math.round(total / loan.termMonths).
calculateMonthlyPayment_Rounded(loan) ==
    LET q == JsDiv(JsMul(loan.amount, JsAdd(Fin(1), loan.interestRate)),
                   loan.termMonths)
    IN IF q.k = "fin" THEN Fraction((2 * q.n + q.d) \div (2 * q.d), 1)
       ELSE q

\* total = loan.amount * (1 + loan.interestRate); total / loan.termMonths.
\* The arithmetic is exact here: the rounding of a double is left out.
calculateMonthlyPayment(loan) ==
    LET total == JsMul(loan.amount, JsAdd(Fin(1), loan.interestRate))
    IN JsDiv(total, loan.termMonths)

CalculateMonthlyPayment(loan) ==
    /\ Running
    /\ last' = [Call("calculateMonthlyPayment", NoInput, NoId, NoStatus,
                     NoError, NoLoan)
                EXCEPT !.loan = loan, !.num = calculateMonthlyPayment(loan)]
    /\ UNCHANGED <<loansSlot, auditSlot, now, steps, hist, tabs>>

\* The clock advances between calls.
Tick ==
    /\ Running
    /\ now < MaxTime
    /\ now' = now + 1
    /\ UNCHANGED <<loansSlot, auditSlot, steps, last, hist, tabs>>

(***************************************************************************)
(* Inputs.                                                                 *)
(***************************************************************************)
\* The draws of Math.random() that tell two ids of one clock reading apart.
Rands == {0, 1}

Names == {<<>>, <<" ">>, <<" ", "a", " ">>}
Amounts == {Fin(0), Fin(AmountLimit), Fin(AmountLimit + 1), NaN, Infinity}
Terms == {Fin(0), Fin(TermLimit), Fin(TermLimit + 1), NaN}
Rates == {Fin(-1), Fin(0)}

CreateLoanInput(name, amount, term, rate) ==
    [applicantName |-> name, amount |-> amount, termMonths |-> term,
     interestRate |-> rate]

Inputs == {CreateLoanInput(n, a, t, i) :
              n \in Names, a \in Amounts, t \in Terms, i \in Rates}

\* The inputs of the longer runs: every decision of autoDecideLoan and every
\* reason of a rejection, a number JSON cannot hold in either field it
\* reads, and an input that fails validation.
ValidName == <<" ", "a", " ">>
MainInputs ==
    {CreateLoanInput(ValidName, Fin(AmountLimit), Fin(TermLimit), Fin(0)),
     CreateLoanInput(ValidName, Fin(AmountLimit + 1), Fin(TermLimit), Fin(0)),
     CreateLoanInput(ValidName, Fin(AmountLimit), Fin(TermLimit + 1), Fin(0)),
     CreateLoanInput(ValidName, Fin(AmountLimit + 1), Fin(TermLimit + 1),
                     Fin(0)),
     CreateLoanInput(ValidName, Infinity, Fin(TermLimit), Fin(0)),
     CreateLoanInput(ValidName, Fin(AmountLimit), NaN, Fin(0)),
     CreateLoanInput(ValidName, Fin(AmountLimit), Fin(0), Fin(0))}

\* The ids a caller passes: the id of a stored loan, or one fixed id that
\* the store may or may not hold.
ProbeId == generateId(0, 0)
IdArgs == {getLoans(loansSlot)[i].id : i \in 1..Len(getLoans(loansSlot))}
              \cup {ProbeId}

(***************************************************************************)
(* The store from its first use, driven by one caller.                     *)
(***************************************************************************)
Init ==
    /\ loansSlot = Absent
    /\ auditSlot = Absent
    /\ now = 0
    /\ steps = 0
    /\ last = Call("none", NoInput, NoId, NoStatus, NoError, NoLoan)
    /\ hist = <<>>
    /\ tabs = [t \in Tabs |-> IdleTab]

LoanCalls(inputs) ==
    \/ \E input \in inputs, r \in Rands : CreateLoanApplication(input, r)
    \/ \E id \in IdArgs, status \in LoanStatus :
          UpdateLoanStatus(id, status)
    \/ \E id \in IdArgs : AutoDecideLoan(id)
    \/ \E id \in IdArgs : DeleteLoan(id)

Next ==
    \/ LoanCalls(MainInputs)
    \/ Tick

Spec == Init /\ [][Next]_vars

(***************************************************************************)
(* createLoanApplication alone, over the whole input space.                *)
(***************************************************************************)
NextCreate ==
    \/ \E input \in Inputs, r \in Rands : CreateLoanApplication(input, r)
    \/ Tick

SpecCreate == Init /\ [][NextCreate]_vars

(***************************************************************************)
(* The audit log at its capacity: the store after n entries were appended  *)
(* at the clock readings -n .. -1 (counted as the run's first step), then  *)
(* any call of either service.                                             *)
(***************************************************************************)
FillInput ==
    CreateAuditLogInput("approve", ProbeId, <<"a">>, "pending", "approved",
        Details("status", <<"a">>, Fin(AmountLimit), Null, "approved", <<>>))

Fill(n) == [i \in 1..n |-> NewEntry(FillInput, i - n - 1, EntryRand)]

AuditInputs == {FillInput}
SaveInputs == {Fill(0), Fill(2), Fill(MAX_ENTRIES), Fill(MAX_ENTRIES + 1),
               Fill(MAX_ENTRIES + 50)}
CapInputs ==
    {CreateLoanInput(ValidName, Fin(AmountLimit), Fin(TermLimit), Fin(0))}

InitCap ==
    /\ loansSlot = Absent
    /\ \E n \in {MAX_ENTRIES - 1, MAX_ENTRIES} :
          /\ auditSlot = saveAuditLog(Fill(n))
          /\ hist = Fill(n)
    /\ now = 0
    /\ steps = 1
    /\ last = Call("none", NoInput, NoId, NoStatus, NoError, NoLoan)
    /\ tabs = [t \in Tabs |-> IdleTab]

AuditCalls ==
    \/ \E input \in AuditInputs : CreateAuditLogEntry(input)
    \/ \E entries \in SaveInputs : SaveAuditLog(entries)
    \/ ClearAuditLog

NextCap ==
    \/ AuditCalls
    \/ LoanCalls(CapInputs)
    \/ Tick

SpecCap == InitCap /\ [][NextCap]_vars

(***************************************************************************)
(* The storage functions called directly, on slots found with any content: *)
(* nothing, text that does not parse, JSON that is no array, or an array   *)
(* written earlier (counted as the run's first step).                      *)
(***************************************************************************)
StoredLoan ==
    NewLoan(CreateLoanInput(ValidName, Fin(AmountLimit), Fin(TermLimit),
                            Fin(0)), -1, 0)

\* The arrays a caller passes to saveLoans: of stored loans, and of a
\* record as createLoanApplication builds it from a non-finite number.
LoanArrays ==
    {<<>>, <<StoredLoan>>, <<StoredLoan, [StoredLoan EXCEPT !.id = ProbeId]>>,
     <<NewLoan(CreateLoanInput(ValidName, Infinity, Fin(TermLimit), Fin(0)),
               0, 0)>>,
     <<NewLoan(CreateLoanInput(ValidName, Fin(AmountLimit), NaN, Fin(0)),
               0, 0)>>}

FoundLoans == {Absent, Unparsable, NonArray, saveLoans(<<StoredLoan>>)}
FoundLogs == {Absent, Unparsable, NonArray, saveAuditLog(Fill(2))}

InitStore ==
    /\ loansSlot \in FoundLoans
    /\ auditSlot \in FoundLogs
    /\ now = 0
    /\ steps = 1
    /\ last = Call("none", NoInput, NoId, NoStatus, NoError, NoLoan)
    /\ hist = getAuditLog(auditSlot)
    /\ tabs = [t \in Tabs |-> IdleTab]

NextStore ==
    \/ GetLoans
    \/ GetAuditLog
    \/ \E loans \in LoanArrays : SaveLoans(loans)
    \/ AuditCalls
    \/ LoanCalls(CapInputs)
    \/ Tick

SpecStore == InitStore /\ [][NextStore]_vars

\* The same calls on a store found with text that does not parse under
\* both keys.
InitUnparsable ==
    /\ loansSlot = Unparsable
    /\ auditSlot = Unparsable
    /\ now = 0
    /\ steps = 1
    /\ last = Call("none", NoInput, NoId, NoStatus, NoError, NoLoan)
    /\ hist = <<>>
    /\ tabs = [t \in Tabs |-> IdleTab]

SpecUnparsable == InitUnparsable /\ [][NextStore]_vars

(***************************************************************************)
(* filterAuditLog, a function of its arguments alone.  The three fields it *)
(* searches are texts here: sequences of characters.                       *)
(***************************************************************************)
FilterEntry(type, loanId, applicantName, details) ==
    [id |-> generateId(0, EntryRand), timestamp |-> 0, actionType |-> type,
     loanId |-> loanId, applicantName |-> applicantName,
     previousStatus |-> NoStatus, newStatus |-> NoStatus,
     details |-> details]

\* Entries that hold "a", in either case, in one field each or in none.
FilterEntries ==
    {FilterEntry("create", <<"b">>, <<"A", "b">>, <<"b">>),
     FilterEntry("approve", <<"a">>, <<"b">>, <<"b">>),
     FilterEntry("create", <<"b">>, <<"b">>, <<"b", " ", "A">>),
     FilterEntry("delete", <<"b">>, <<"B">>, <<"b">>)}

RECURSIVE ArraysUpTo(_, _)
ArraysUpTo(S, n) ==
    IF n = 0 THEN {<<>>}
    ELSE ArraysUpTo(S, n - 1)
            \cup {Append(a, x) : a \in {b \in ArraysUpTo(S, n - 1) :
                                             Len(b) = n - 1}, x \in S}

EntryArrays == ArraysUpTo(FilterEntries, MaxFiltered)

ActionTypeFilters ==
    {Undefined, Some(<<>>), Some(<<"create">>),
     Some(<<"create", "approve">>), Some(<<"auto-decide">>)}
SearchTexts ==
    {Undefined, Some(<<>>), Some(<<" ">>), Some(<<" ", "A", " ">>),
     Some(<<"A", "b">>), Some(<<"a", " ", "b">>)}
Filters == {AuditLogFilter(t, s) : t \in ActionTypeFilters,
                                   s \in SearchTexts}

NextFilter ==
    \E entries \in EntryArrays, filter \in Filters :
        FilterAuditLog(entries, filter)

SpecFilter == Init /\ [][NextFilter]_vars

(***************************************************************************)
(* calculateMonthlyPayment, called at any time beside any stored content,  *)
(* on loans as they are read from storage and as createLoanApplication     *)
(* returns them.                                                           *)
(***************************************************************************)
PaymentLoans ==
    {[StoredLoan EXCEPT !.amount = a, !.termMonths = t, !.interestRate = i] :
        a \in {Fin(0), Fin(AmountLimit), Fin(AmountLimit + 1), Null,
               Infinity},
        t \in {Fin(TermLimit), Fin(TermLimit + 1), Null, NaN},
        i \in {Fin(0), Fin(1)}}

NextPayment ==
    \/ \E loan \in PaymentLoans : CalculateMonthlyPayment(loan)
    \/ Tick

SpecPayment == InitStore /\ [][NextPayment]_vars

(***************************************************************************)
(* The application in browser tabs that share the storage.  A handler runs *)
(* in steps, one for each access to the storage, so that the steps of two  *)
(* tabs interleave; a tab can be closed, and a setItem can throw, at any   *)
(* step.                                                                   *)
(***************************************************************************)
QuotaExceededError ==
    [kind |-> "QuotaExceededError", text |-> "exceeded the quota",
     id |-> NoId]

\* The checks of LoanForm's handleSubmit, made before the service is
\* called; "" when the form is submitted.  !x is true of 0, NaN and null.
FormMessage(input) ==
    IF trim(input.applicantName) = <<>> THEN NameMessage
    ELSE IF \/ input.amount.k \in {"nan", "null"}
            \/ input.amount = Fin(0)
            \/ JsLe(input.amount, 0)
    THEN AmountMessage
    ELSE IF \/ input.termMonths.k \in {"nan", "null"}
            \/ input.termMonths = Fin(0)
            \/ JsLe(input.termMonths, 0)
    THEN TermMessage
    ELSE IF input.interestRate.k = "null" \/ JsLt(input.interestRate, 0)
    THEN "Interest rate is required and cannot be negative"
    ELSE ""

\* What a loan operation does between getLoans() and saveLoans(loans): the
\* error it throws, or the array it is about to save, the input of its
\* audit entry and the value it will return.
Computed(err, loans, input, ret) ==
    [err |-> err, loans |-> loans, input |-> input, ret |-> ret]

Compute(op, slot, input, id, status, t, r) ==
    LET loans == getLoans(slot)
        loanIndex == findIndex(loans, id)
        loan == loans[loanIndex]
        newLoan == NewLoan(input, t, r)
    IN IF op = "createLoanApplication" /\ ValidationMessage(input) # ""
       THEN Computed(ValidationError(input), <<>>, NoAuditInput, NoLoan)
       ELSE IF ~IsArray(slot)
       THEN Computed(TypeError, <<>>, NoAuditInput, NoLoan)
       ELSE IF op = "createLoanApplication"
       THEN Computed(NoError, Append(loans, newLoan),
                CreateAuditLogInput("create", newLoan.id,
                    newLoan.applicantName, NoStatus, "pending",
                    Details("created", <<>>,
                        formatCurrencyForLog(newLoan.amount),
                        newLoan.termMonths, NoStatus, <<>>)),
                newLoan)
       ELSE IF loanIndex = -1
       THEN Computed(NotFoundError(id), <<>>, NoAuditInput, NoLoan)
       ELSE IF op = "updateLoanStatus"
       THEN Computed(NoError, [loans EXCEPT ![loanIndex].status = status],
                CreateAuditLogInput(actionType(status), loan.id,
                    loan.applicantName, loan.status, status,
                    Details("status", loan.applicantName,
                        formatCurrencyForLog(loan.amount), Null, status,
                        <<>>)),
                NoLoan)
       ELSE IF op = "autoDecideLoan"
       THEN Computed(NoError,
                [loans EXCEPT ![loanIndex].status = Decision(loan)],
                CreateAuditLogInput("auto-decide", loan.id,
                    loan.applicantName, loan.status, Decision(loan),
                    Details("auto", <<>>, Null, Null, Decision(loan),
                        join(Reasons(loan), " and "))),
                NoLoan)
       ELSE Computed(NoError, splice(loans, loanIndex),
                CreateAuditLogInput("delete", id, loan.applicantName,
                    loan.status, NoStatus,
                    Details("deleted", loan.applicantName,
                        formatCurrencyForLog(loan.amount), Null,
                        loan.status, <<>>)),
                NoLoan)

\* The tab when its handler has ended: the variables of the call are gone.
Ended(tab) ==
    [tab EXCEPT !.pc = "idle", !.callLoans = <<>>, !.input = NoAuditInput,
                !.callEntries = <<>>, !.call.input = NoInput,
                !.call.status = NoStatus]

\* The tab after its service call threw err: handleSubmit catches it and
\* shows the message; the handlers of App.vue catch nothing, so the error
\* leaves the handler and refreshLoans() is not reached.
Thrown(tab, err, slot) ==
    IF tab.call.op = "createLoanApplication"
    THEN [Ended(tab) EXCEPT !.call.err = err, !.error = err.text]
    ELSE [Ended(tab) EXCEPT !.call.err = err, !.uncaught = err]

\* The number of handlers that have called the service and not yet saved.
Started == Cardinality({t \in Tabs : tabs[t].pc = "loansRead"})

\* A tab takes a click when no handler of it is running; an error that left
\* an earlier handler does not stop the application.
CanClick(t) == tabs[t].pc = "idle"

\* A handler calls the service: the call runs up to its saveLoans, or
\* throws.  The calls that go on to save are counted against MaxSteps.
Calls(t, op, input, id, status, r) ==
    LET c == Compute(op, loansSlot, input, id, status, now, r)
        tab == [tabs[t] EXCEPT
                   !.call = Call(op, input, id, status, NoError, c.ret),
                   !.uncaught = NoError,
                   !.error = IF op = "createLoanApplication" THEN ""
                             ELSE @]
    IN /\ c.err = NoError => steps + Started < MaxSteps
       /\ tabs' = [tabs EXCEPT ![t] =
                     IF c.err # NoError THEN Thrown(tab, c.err, loansSlot)
                     ELSE [tab EXCEPT !.pc = "loansRead",
                                      !.callLoans = c.loans,
                                      !.input = c.input]]
       /\ UNCHANGED <<loansSlot, auditSlot, now, steps, last, hist>>

\* handleSubmit of LoanForm: refused by the form's own checks, or passed to
\* createLoanApplication with the name trimmed.
HandleSubmit(t, input, r) ==
    /\ CanClick(t)
    /\ IF FormMessage(input) # ""
       THEN /\ tabs' = [tabs EXCEPT ![t].error = FormMessage(input)]
            /\ UNCHANGED <<loansSlot, auditSlot, now, steps, last, hist>>
       ELSE Calls(t, "createLoanApplication",
                  [input EXCEPT !.applicantName = trim(@)], NoId, NoStatus, r)

\* The rows of LoanList on which approve, reject and auto-decide are
\* offered: v-if="loan.status === 'pending'".
Offered(t) ==
    {i \in 1..Len(tabs[t].loans) : tabs[t].loans[i].status = "pending"}

HandleApprove(t, i) ==
    /\ CanClick(t)
    /\ i \in Offered(t)
    /\ Calls(t, "updateLoanStatus", NoInput, tabs[t].loans[i].id, "approved",
             0)

HandleReject(t, i) ==
    /\ CanClick(t)
    /\ i \in Offered(t)
    /\ Calls(t, "updateLoanStatus", NoInput, tabs[t].loans[i].id, "rejected",
             0)

HandleAutoDecide(t, i) ==
    /\ CanClick(t)
    /\ i \in Offered(t)
    /\ Calls(t, "autoDecideLoan", NoInput, tabs[t].loans[i].id, NoStatus, 0)

\* The delete button is on every row; confirmDelete emits the id.
HandleDelete(t, i) ==
    /\ CanClick(t)
    /\ i \in 1..Len(tabs[t].loans)
    /\ Calls(t, "deleteLoan", NoInput, tabs[t].loans[i].id, NoStatus, 0)

\* A write that keeps the loans another caller stored since the read.
TabSaveLoans_Merges(t) ==
    /\ tabs[t].pc = "loansRead"
    /\ loansSlot' = saveLoans(tabs[t].callLoans \o
                        SelectSeq(getLoans(loansSlot), LAMBDA l :
                            \A i \in 1..Len(tabs[t].callLoans) :
                                tabs[t].callLoans[i].id # l.id))
    /\ steps' = steps + 1
    /\ tabs' = [tabs EXCEPT ![t].pc = "loansSaved"]
    /\ UNCHANGED <<auditSlot, now, last, hist>>

\* saveLoans(loans): localStorage.setItem writes, or throws.
TabSaveLoans(t) ==
    /\ tabs[t].pc = "loansRead"
    /\ \/ /\ loansSlot' = saveLoans(tabs[t].callLoans)
          /\ steps' = steps + 1
          /\ tabs' = [tabs EXCEPT ![t].pc = "loansSaved"]
          /\ UNCHANGED <<auditSlot, now, last, hist>>
       \/ /\ tabs' = [tabs EXCEPT ![t] =
                        Thrown(@, QuotaExceededError, loansSlot)]
          /\ UNCHANGED <<loansSlot, auditSlot, now, steps, last, hist>>

\* createAuditLogEntry up to its saveAuditLog: newEntry, getAuditLog(),
\* entries.push(newEntry).
TabGetAuditLog(t) ==
    /\ tabs[t].pc = "loansSaved"
    /\ tabs' = [tabs EXCEPT ![t] =
                   IF IsArray(auditSlot)
                   THEN [@ EXCEPT !.pc = "logRead",
                                  !.callEntries =
                                      Append(getAuditLog(auditSlot),
                                             NewEntry(tabs[t].input, now,
                                                      EntryRand))]
                   ELSE Thrown(@, TypeError, loansSlot)]
    /\ UNCHANGED <<loansSlot, auditSlot, now, steps, last, hist>>

\* The audit write failing with the write of the loans undone, the key
\* removed.
TabSaveAuditLogFails_RollsBack(t) ==
    /\ tabs' = [tabs EXCEPT ![t] = Thrown(@, QuotaExceededError, loansSlot)]
    /\ loansSlot' = Absent
    /\ UNCHANGED <<auditSlot, now, steps, last, hist>>

\* saveAuditLog(entries) throws from localStorage.setItem: the error goes
\* up through createAuditLogEntry and the loan operation.
TabSaveAuditLogFails(t) ==
    /\ tabs' = [tabs EXCEPT ![t] = Thrown(@, QuotaExceededError, loansSlot)]
    /\ UNCHANGED <<loansSlot, auditSlot, now, steps, last, hist>>

\* saveAuditLog(entries): localStorage.setItem writes, or throws.
TabSaveAuditLog(t) ==
    /\ tabs[t].pc = "logRead"
    /\ \/ /\ auditSlot' = saveAuditLog(tabs[t].callEntries)
          /\ tabs' = [tabs EXCEPT ![t].pc = "logSaved"]
          /\ UNCHANGED <<loansSlot, now, steps, last, hist>>
       \/ TabSaveAuditLogFails(t)

\* The service call returns and the handler goes on to refreshLoans()
\* (handleSubmit through emit('created')).
TabReturns(t) ==
    /\ tabs[t].pc = "logSaved"
    /\ tabs' = [tabs EXCEPT ![t] =
                   [Ended(@) EXCEPT !.loans = getLoans(loansSlot)]]
    /\ UNCHANGED <<loansSlot, auditSlot, now, steps, last, hist>>

\* The tab is closed, or its process ends, while a handler is running.
TabCloses(t) ==
    /\ tabs[t].pc \in {"loansRead", "loansSaved", "logRead", "logSaved"}
    /\ tabs' = [tabs EXCEPT ![t] = [IdleTab EXCEPT !.pc = "closed"]]
    /\ UNCHANGED <<loansSlot, auditSlot, now, steps, last, hist>>

\* The page is loaded again: onMounted reads the list.
TabReloads(t) ==
    /\ tabs[t].pc = "idle"
    /\ tabs[t].loans # getLoans(loansSlot)
    /\ tabs' = [tabs EXCEPT ![t] =
                   [IdleTab EXCEPT !.loans = getLoans(loansSlot)]]
    /\ UNCHANGED <<loansSlot, auditSlot, now, steps, last, hist>>

\* What is typed into the form, with the draw of Math.random() when it is
\* submitted: a loan over the amount bound, and a blank name.
FormInputs ==
    {<<CreateLoanInput(ValidName, Fin(AmountLimit + 1), Fin(TermLimit),
                       Fin(0)), r>> : r \in Rands}
    \cup {<<CreateLoanInput(<<" ">>, Fin(AmountLimit), Fin(TermLimit),
                            Fin(0)), 0>>}

Rows == 1..MaxLoans

TabStep(t) ==
    \/ \E f \in FormInputs : HandleSubmit(t, f[1], f[2])
    \/ \E i \in Rows : HandleApprove(t, i)
    \/ \E i \in Rows : HandleReject(t, i)
    \/ \E i \in Rows : HandleAutoDecide(t, i)
    \/ \E i \in Rows : HandleDelete(t, i)
    \/ TabSaveLoans(t)
    \/ TabGetAuditLog(t)
    \/ TabSaveAuditLog(t)
    \/ TabReturns(t)
    \/ TabCloses(t)
    \/ TabReloads(t)

NextTabs == \E t \in Tabs : TabStep(t)

\* Two tabs opened on the empty storage, a step of the bound already spent.
InitTabs ==
    /\ loansSlot = Absent
    /\ auditSlot = Absent
    /\ now = 0
    /\ steps = 1
    /\ last = Call("none", NoInput, NoId, NoStatus, NoError, NoLoan)
    /\ hist = <<>>
    /\ tabs = [t \in Tabs |-> IdleTab]

SpecTabs == InitTabs /\ [][NextTabs]_vars

\* One tab alone.
NextOneTab == TabStep(1)

SpecOneTab == Init /\ [][NextOneTab]_vars

(***************************************************************************)
(* Properties.                                                             *)
(***************************************************************************)
Loans == getLoans(loansSlot)
Log == getAuditLog(auditSlot)

LoanOps == {"createLoanApplication", "updateLoanStatus", "autoDecideLoan",
            "deleteLoan"}
IdOps == {"updateLoanStatus", "autoDecideLoan", "deleteLoan"}

\* The step is a call of one of `ops` that returned normally.
Returned(ops) ==
    /\ steps' = steps + 1
    /\ last'.op \in ops
    /\ last'.err = NoError

\* The step is a call of one of `ops` that threw.
Threw(ops) ==
    /\ last' # last
    /\ last'.op \in ops
    /\ last'.err # NoError

\* The log after one entry e was appended to log: e is last, what was
\* there keeps its order, and only a full log loses its oldest entry.
AppendedTo(log, e) ==
    IF Len(log) < MAX_ENTRIES THEN Append(log, e) ELSE Append(Tail(log), e)

\* The loan a successful call acted on, as an index: the record the call
\* added (create), or the first record of the id it was given.
ActedBefore == IF last'.op = "createLoanApplication" THEN 0
               ELSE findIndex(Loans, last'.id)
ActedAfter == IF last'.op = "createLoanApplication" THEN Len(Loans) + 1
              ELSE IF last'.op = "deleteLoan" THEN 0
              ELSE findIndex(Loans, last'.id)

\* C1: every successful createLoanApplication, updateLoanStatus,
\* autoDecideLoan and deleteLoan appends exactly one entry to the audit log;
\* the entry's loanId is the id of the loan created, changed or removed, its
\* previousStatus is the loan's status before the call (null when the call
\* created it) and its newStatus the status after it (null when the call
\* removed it).
C1_Step ==
    Returned(LoanOps) =>
        LET log2 == getAuditLog(auditSlot')
            e == log2[Len(log2)]
            loans2 == getLoans(loansSlot')
        IN /\ Len(log2) > 0
           /\ log2 = AppendedTo(Log, e)
           /\ hist' = Append(hist, e)
           /\ e.loanId = (IF ActedAfter # 0 THEN loans2[ActedAfter].id
                          ELSE Loans[ActedBefore].id)
           /\ e.previousStatus = (IF ActedBefore # 0
                                  THEN Loans[ActedBefore].status
                                  ELSE NoStatus)
           /\ e.newStatus = (IF ActedAfter # 0
                             THEN loans2[ActedAfter].status
                             ELSE NoStatus)
C1_OneAuditEntryPerMutation == [][C1_Step]_vars

\* C1: a loan was approved, then deleted, and the log holds an entry of each
\* call.
C1_Witness ==
    /\ last.op = "deleteLoan"
    /\ last.err = NoError
    /\ Len(Log) = 3
    /\ Log[2].previousStatus = "pending"
    /\ Log[3].previousStatus = "approved"

\* C2: the persisted audit log never holds more than MAX_ENTRIES (500)
\* entries, whatever calls of the loan service, createAuditLogEntry,
\* saveAuditLog and clearAuditLog were made.
C2_AtMostMaxEntries == Len(Log) <= MAX_ENTRIES

\* C2: more than MAX_ENTRIES entries were handed to the log, the last by a
\* loan operation, and the log holds MAX_ENTRIES.
C2_Witness ==
    /\ Len(hist) > MAX_ENTRIES
    /\ Len(Log) = MAX_ENTRIES
    /\ last.op \in LoanOps
    /\ last.err = NoError

\* C3: once more than MAX_ENTRIES entries have been appended with no clear in
\* between, the persisted log is exactly the last MAX_ENTRIES of them in the
\* order of their appending; while at most MAX_ENTRIES entries were appended
\* or passed to saveAuditLog, the log holds all of them.
C3_NewestKeptInOrder ==
    IF Len(hist) > MAX_ENTRIES
    THEN /\ Len(Log) = MAX_ENTRIES
         /\ \A i \in 1..MAX_ENTRIES :
               Log[i] = hist[Len(hist) - MAX_ENTRIES + i]
    ELSE Log = hist

\* C3: MAX_ENTRIES entries were appended and then two more, one after the
\* other.
C3_Witness ==
    /\ Len(hist) = MAX_ENTRIES + 2
    /\ hist[1].timestamp = -MAX_ENTRIES
    /\ hist[MAX_ENTRIES + 1].timestamp >= 0
    /\ Log[1] = hist[3]

\* The creation rules as the specification states them, on a number as
\* entered or as read back from storage: null and NaN are no number above
\* or equal to anything.
Positive(x) == x.k = "inf" \/ (x.k = "fin" /\ x.v > 0)
NonNegative(x) == x.k = "inf" \/ (x.k = "fin" /\ x.v >= 0)
AtMost(x, n) == x.k = "fin" /\ x.v <= n

\* The message of the earliest rule the input violates, "" when it violates
\* none.
FirstViolated(input) ==
    IF trim(input.applicantName) = <<>> THEN NameMessage
    ELSE IF ~Positive(input.amount) THEN AmountMessage
    ELSE IF ~Positive(input.termMonths) THEN TermMessage
    ELSE IF ~NonNegative(input.interestRate) THEN RateMessage
    ELSE ""

\* C4: createLoanApplication checks the name (trimmed, non-empty), then
\* amount > 0, then termMonths > 0, then interestRate >= 0; it throws the
\* message of the earliest rule the input violates and returns normally only
\* when the input violates none; the four messages differ pairwise.
C4_FirstViolatedCheckWins ==
    /\ Cardinality({NameMessage, AmountMessage, TermMessage, RateMessage}) = 4
    /\ last.op = "createLoanApplication" =>
          last.err.text = FirstViolated(last.input)

\* C5: a createLoanApplication that throws a validation error leaves the
\* loans slot and the audit-log slot exactly as they were.
C5_Step ==
    (/\ Threw({"createLoanApplication"})
     /\ last'.err.text \in {NameMessage, AmountMessage, TermMessage,
                            RateMessage})
        => /\ loansSlot' = loansSlot
           /\ auditSlot' = auditSlot
C5_FailedCreateWritesNothing == [][C5_Step]_vars

\* C5: a creation was refused for its interest rate while the store held a
\* loan and the log an entry.
C5_Witness ==
    /\ last.op = "createLoanApplication"
    /\ last.err.text = RateMessage
    /\ Len(Loans) = 1
    /\ Len(Log) = 1

\* C6: every persisted loan has a non-empty id and no two persisted loans
\* share an id.
C6_IdsUnique ==
    /\ \A i \in 1..Len(Loans) : Loans[i].id # <<>>
    /\ \A i, j \in 1..Len(Loans) : i # j => Loans[i].id # Loans[j].id

\* C7: a successful createLoanApplication returns a pending record with the
\* trimmed name and the input's amount, termMonths and interestRate, and the
\* persisted collection afterwards is the previous one with that record
\* added at the end.
C7_Step ==
    Returned({"createLoanApplication"}) =>
        /\ last'.ret.status = "pending"
        /\ last'.ret.applicantName = trim(last'.input.applicantName)
        /\ last'.ret.amount = last'.input.amount
        /\ last'.ret.termMonths = last'.input.termMonths
        /\ last'.ret.interestRate = last'.input.interestRate
        /\ getLoans(loansSlot') = Append(Loans, last'.ret)
C7_CreateAppendsReturnedRecord == [][C7_Step]_vars

\* C8: every persisted loan satisfies the creation rules: a name that is
\* non-empty after trimming, amount > 0, termMonths > 0 (so never 0, and
\* calculateMonthlyPayment never divides by zero), interestRate >= 0.
C8_PersistedLoansValid ==
    \A i \in 1..Len(Loans) :
        /\ trim(Loans[i].applicantName) # <<>>
        /\ Positive(Loans[i].amount)
        /\ Positive(Loans[i].termMonths)
        /\ NonNegative(Loans[i].interestRate)

\* C9: updateLoanStatus, autoDecideLoan and deleteLoan called with an id that
\* no persisted loan has throw the not-found error, whose message holds that
\* id.
C9_Step ==
    (/\ last' # last
     /\ last'.op \in IdOps
     /\ \A i \in 1..Len(Loans) : Loans[i].id # last'.id)
        => last'.err = [kind |-> "Error",
                        text |-> "Loan with id ${id} not found",
                        id |-> last'.id]
C9_UnknownIdNotFound == [][C9_Step]_vars

\* C9: autoDecideLoan was refused for an id the store, which holds a loan,
\* does not hold.
C9_Witness ==
    /\ last.op = "autoDecideLoan"
    /\ last.err.kind = "Error"
    /\ Len(Loans) = 1
    /\ Loans[1].id # last.id

\* C10: a successful autoDecideLoan leaves the loan approved exactly when
\* its amount is at most 100000 and its termMonths at most 60, and rejected
\* otherwise, whatever its status was.
C10_Step ==
    Returned({"autoDecideLoan"}) =>
        LET i == findIndex(Loans, last'.id)
        IN getLoans(loansSlot')[i].status =
              (IF /\ AtMost(Loans[i].amount, AmountLimit)
                  /\ AtMost(Loans[i].termMonths, TermLimit)
               THEN "approved" ELSE "rejected")
C10_DecisionRule == [][C10_Step]_vars

\* A stored number is above the bound n.
Exceeds(x, n) == x.k = "inf" \/ (x.k = "fin" /\ x.v > n)

\* The last entry of the log after the step.
Appended == getAuditLog(auditSlot')[Len(getAuditLog(auditSlot'))]

\* C11: when autoDecideLoan rejects, the reasons in the details of its audit
\* entry are exactly the bounds the loan exceeds: the amount bound alone,
\* the term bound alone, or both with "and" between them, and never none.
C11_Step ==
    (Returned({"autoDecideLoan"}) /\ Appended.newStatus = "rejected") =>
        LET loan == Loans[findIndex(Loans, last'.id)]
            overAmount == Exceeds(loan.amount, AmountLimit)
            overTerm == Exceeds(loan.termMonths, TermLimit)
        IN /\ Appended.details.tpl = "auto"
           /\ Appended.details.status = "rejected"
           /\ Appended.details.reasons # <<>>
           /\ Appended.details.reasons =
                 (IF overAmount /\ overTerm
                  THEN <<"amount > $100,000", " and ", "term > 60 months">>
                  ELSE IF overAmount THEN <<"amount > $100,000">>
                  ELSE IF overTerm THEN <<"term > 60 months">>
                  ELSE <<>>)
C11_RejectionNamesExceededBounds == [][C11_Step]_vars

\* C11: autoDecideLoan rejected a loan that exceeds both bounds.
C11_Witness ==
    /\ last.op = "autoDecideLoan"
    /\ last.err = NoError
    /\ Len(Log) = 2
    /\ Log[2].newStatus = "rejected"
    /\ Len(Log[2].details.reasons) = 3

\* C12: the entry a loan operation appends has actionType create,
\* previousStatus null and newStatus pending for createLoanApplication;
\* actionType approve when the status given is approved and reject
\* otherwise, previousStatus the status before the call and newStatus the
\* status given for updateLoanStatus; actionType auto-decide, the status
\* before and the decided status for autoDecideLoan; actionType delete, the
\* status at deletion and newStatus null for deleteLoan; and always the
\* loan's applicantName at the time of the call.
C12_Step ==
    Returned(LoanOps) =>
        LET op == last'.op
            before == Loans[findIndex(Loans, last'.id)]
            after == getLoans(loansSlot')[findIndex(getLoans(loansSlot'),
                                                    last'.id)]
        IN /\ op = "createLoanApplication" =>
                 /\ Appended.actionType = "create"
                 /\ Appended.previousStatus = NoStatus
                 /\ Appended.newStatus = "pending"
                 /\ Appended.applicantName = last'.ret.applicantName
           /\ op = "updateLoanStatus" =>
                 /\ Appended.actionType =
                       (IF last'.status = "approved" THEN "approve"
                                                     ELSE "reject")
                 /\ Appended.previousStatus = before.status
                 /\ Appended.newStatus = last'.status
                 /\ Appended.applicantName = before.applicantName
           /\ op = "autoDecideLoan" =>
                 /\ Appended.actionType = "auto-decide"
                 /\ Appended.previousStatus = before.status
                 /\ Appended.newStatus = after.status
                 /\ Appended.newStatus \in {"approved", "rejected"}
                 /\ Appended.applicantName = before.applicantName
           /\ op = "deleteLoan" =>
                 /\ Appended.actionType = "delete"
                 /\ Appended.previousStatus = before.status
                 /\ Appended.newStatus = NoStatus
                 /\ Appended.applicantName = before.applicantName
C12_AuditEntryFields == [][C12_Step]_vars

\* C12: a rejected loan was set back to pending, which is logged as a
\* reject.
C12_Witness ==
    /\ last.op = "updateLoanStatus"
    /\ last.err = NoError
    /\ Len(Log) = 3
    /\ Log[3].actionType = "reject"
    /\ Log[3].previousStatus = "rejected"
    /\ Log[3].newStatus = "pending"

\* Every entry of log that is still in log2 is there unchanged and in its
\* order: log2 starts with log less its k oldest entries, and entries were
\* dropped (k > 0) only from a log2 that is full.
Survives(log, log2) ==
    \E k \in 0..Len(log) :
        /\ k > 0 => Len(log2) = MAX_ENTRIES
        /\ Len(log) - k <= Len(log2)
        /\ \A i \in 1..(Len(log) - k) : log2[i] = log[k + i]

\* C13 as stated: an appended entry is never changed, and it leaves the log
\* only through clearAuditLog or FIFO eviction, whatever call is made.
C13_Step_AnyCall ==
    (auditSlot' # auditSlot /\ last'.op # "clearAuditLog")
        => Survives(Log, getAuditLog(auditSlot'))
C13_Step ==
    (auditSlot' # auditSlot /\ last'.op \notin {"clearAuditLog", "saveAuditLog"})
        => Survives(Log, getAuditLog(auditSlot'))
C14_EmptyOnAbsentOrUnparsable ==
    /\ (last.op = "getLoans" /\ loansSlot.kind \in {"absent", "unparsable"})
          => (last.err = NoError /\ last.list = [array |-> TRUE,
                                                  items |-> <<>>])
    /\ (last.op = "getAuditLog"
            /\ auditSlot.kind \in {"absent", "unparsable"})
          => (last.err = NoError /\ last.list = [array |-> TRUE,
                                                  items |-> <<>>])

\* C14: getAuditLog was called on a slot whose content does not parse,
\* beside a loans slot that holds a loan.
C14_Witness ==
    /\ last.op = "getAuditLog"
    /\ auditSlot.kind = "unparsable"
    /\ Len(Loans) = 1

\* C16: after saveLoans(x) a read returns x, for every array x of loans;
\* after saveAuditLog(y) a read returns y, for every array y of at most
\* MAX_ENTRIES entries.
C16_SaveThenReadReturnsSame ==
    /\ last.op = "saveLoans" => getLoans(loansSlot) = last.entries
    /\ (last.op = "saveAuditLog" /\ Len(last.entries) <= MAX_ENTRIES)
          => getAuditLog(auditSlot) = last.entries

\* C19: after clearAuditLog a read of the log returns the empty array,
\* whatever the slot held, and the loans slot is as it was.
C19_Step ==
    (steps' = steps + 1 /\ last'.op = "clearAuditLog")
        => /\ IsArray(auditSlot')
           /\ getAuditLog(auditSlot') = <<>>
           /\ loansSlot' = loansSlot
C19_ClearEmptiesLogOnly == [][C19_Step]_vars

\* C19: the log was cleared beside a loans slot that holds a loan.
C19_Witness ==
    /\ last.op = "clearAuditLog"
    /\ last.err = NoError
    /\ Len(Loans) >= 1
    /\ auditSlot = Absent

\* The text part occurs in the text s.
Contains(s, part) ==
    \E i \in 0..(Len(s) - Len(part)) :
        \A k \in 1..Len(part) : s[i + k] = part[k]

Blank(s) == \A k \in 1..Len(s) : s[k] = " "

\* The text s between its first and its last character that is no space,
\* in lower case.
Needle(s) ==
    LET at == {k \in 1..Len(s) : s[k] # " "}
        lo == CHOOSE k \in at : \A j \in at : k <= j
        hi == CHOOSE k \in at : \A j \in at : k >= j
    IN [k \in 1..(hi - lo + 1) |-> Lower(s[lo + k - 1])]

LowerOf(s) == [k \in 1..Len(s) |-> Lower(s[k])]

\* The criteria of the filter that exclude something.
TypesGiven(filter) ==
    filter.actionTypes.present /\ filter.actionTypes.v # <<>>
TextGiven(filter) ==
    filter.searchText.present /\ ~Blank(filter.searchText.v)

Satisfies(entry, filter) ==
    /\ TypesGiven(filter) =>
          \E k \in 1..Len(filter.actionTypes.v) :
              filter.actionTypes.v[k] = entry.actionType
    /\ TextGiven(filter) =>
          \/ Contains(LowerOf(entry.loanId), Needle(filter.searchText.v))
          \/ Contains(LowerOf(entry.applicantName),
                      Needle(filter.searchText.v))
          \/ Contains(LowerOf(entry.details), Needle(filter.searchText.v))

\* C15: filterAuditLog(entries, criteria) returns, in the order of entries,
\* exactly the entries whose actionType is one of actionTypes (when that is
\* given and not empty) and whose loanId, applicantName or details holds, in
\* lower case, the trimmed lower-case searchText (when that is given and not
\* blank); with neither criterion in effect it returns entries.
C15_FilterReturnsMatchingSubsequence ==
    last.op = "filterAuditLog" =>
        LET entries == last.entries
            result == last.list.items
            kept == {i \in 1..Len(entries) :
                        Satisfies(entries[i], last.filter)}
            nth(j) == CHOOSE i \in kept :
                          Cardinality({k \in kept : k <= i}) = j
        IN /\ Len(result) = Cardinality(kept)
           /\ \A j \in 1..Len(result) : result[j] = entries[nth(j)]
           /\ (~TypesGiven(last.filter) /\ ~TextGiven(last.filter))
                 => result = entries

\* C15: of two entries, the filter kept the one that is a create and holds
\* the text searched for, which was given in upper case between spaces.
C15_Witness ==
    /\ last.op = "filterAuditLog"
    /\ last.filter.actionTypes = Some(<<"create", "approve">>)
    /\ last.filter.searchText = Some(<<" ", "A", " ">>)
    /\ Len(last.entries) = 2
    /\ last.entries[1].actionType = "delete"
    /\ last.list.items = <<last.entries[2]>>

\* C18: calculateMonthlyPayment(loan) returns amount * (1 + interestRate)
\* divided by termMonths, not rounded: the result times termMonths is the
\* total exactly; the result is the same at every time and beside every
\* stored content; the call changes neither slot.
C18_Step ==
    (last'.op = "calculateMonthlyPayment" /\ last' # last) =>
        LET loan == last'.loan
            result == last'.num
        IN /\ (/\ loan.amount.k = "fin"
               /\ loan.interestRate.k = "fin"
               /\ loan.termMonths.k = "fin"
               /\ loan.termMonths.v # 0)
                 => /\ result.k = "fin"
                    /\ result.d > 0
                    /\ result.n * loan.termMonths.v =
                          loan.amount.v * (1 + loan.interestRate.v) * result.d
                    /\ \A g \in 2..result.d :
                          ~(result.n % g = 0 /\ result.d % g = 0)
           /\ loansSlot' = loansSlot
           /\ auditSlot' = auditSlot
C18_MonthlyPaymentExact == [][C18_Step]_vars

\* C18: the payment of a loan of 100000 over 60 months at rate 1 is
\* 10000 / 3, computed at a later time beside a stored loan.
C18_Witness ==
    /\ last.op = "calculateMonthlyPayment"
    /\ last.loan.amount = Fin(AmountLimit)
    /\ last.loan.termMonths = Fin(TermLimit)
    /\ last.loan.interestRate = Fin(1)
    /\ last.num.d = 3
    /\ now > 0
    /\ Len(Loans) = 1

\* The sequence loans without its i-th record.
Without(loans, i) ==
    [j \in 1..(Len(loans) - 1) |-> IF j < i THEN loans[j] ELSE loans[j + 1]]

\* C17: a successful deleteLoan(id) removes one record, which has that id,
\* and nothing else: every other record is as it was and keeps its place
\* in the order; when one loan had the id, none has it afterwards.
C17_Step ==
    Returned({"deleteLoan"}) =>
        /\ \E i \in 1..Len(Loans) :
              /\ Loans[i].id = last'.id
              /\ getLoans(loansSlot') = Without(Loans, i)
        /\ Cardinality({i \in 1..Len(Loans) : Loans[i].id = last'.id}) = 1
              => \A j \in 1..Len(getLoans(loansSlot')) :
                    getLoans(loansSlot')[j].id # last'.id
C20_Step ==
    LET i == findIndex(Loans, last'.id)
    IN (/\ steps' # steps \/ last' # last
        /\ last'.op \in {"updateLoanStatus", "autoDecideLoan"}
        /\ i # -1
        /\ Loans[i].status \in {"approved", "rejected"})
          => /\ last'.err = NoError
             /\ steps' = steps + 1
             /\ IF last'.op = "updateLoanStatus"
                THEN getLoans(loansSlot')[i].status = last'.status
                ELSE getLoans(loansSlot')[i].status
                        \in {"approved", "rejected"}
             /\ getAuditLog(auditSlot') = AppendedTo(Log, Appended)
             /\ Appended.loanId = last'.id
             /\ Appended.previousStatus = Loans[i].status
             /\ Appended.newStatus = getLoans(loansSlot')[i].status
C20_DecidedLoanCanBeDecidedAgain == [][C20_Step]_vars

\* C20: a loan over the amount bound was approved by hand and then
\* rejected by autoDecideLoan.
C20_Witness ==
    /\ last.op = "autoDecideLoan"
    /\ last.err = NoError
    /\ Len(Log) = 3
    /\ Log[2].actionType = "approve"
    /\ Log[3].actionType = "auto-decide"
    /\ Log[3].previousStatus = "approved"
    /\ Log[3].newStatus = "rejected"
    /\ Loans[1].status = "rejected"

\* C25: a successful updateLoanStatus or autoDecideLoan changes the status
\* of one loan with the id given and nothing else: that loan's other fields,
\* every other loan, the number of loans and their order stay as they were.
C25_Step ==
    Returned({"updateLoanStatus", "autoDecideLoan"}) =>
        LET after == getLoans(loansSlot')
        IN /\ Len(after) = Len(Loans)
           /\ \E i \in 1..Len(Loans) :
                 /\ Loans[i].id = last'.id
                 /\ after = [Loans EXCEPT ![i].status = after[i].status]
C25_StatusChangeTouchesOnlyStatus == [][C25_Step]_vars

\* C25: of two loans the first was rejected by autoDecideLoan and the
\* second is still pending.
C25_Witness ==
    /\ last.op = "autoDecideLoan"
    /\ last.err = NoError
    /\ Len(Loans) = 2
    /\ Loans[1].id = last.id
    /\ Loans[1].status = "rejected"
    /\ Loans[2].id # last.id
    /\ Loans[2].status = "pending"

\* C26: updateLoanStatus, autoDecideLoan and deleteLoan that throw the
\* not-found error leave the loans slot and the audit slot exactly as they
\* were, and append no entry.
C26_Step ==
    (/\ last' # last
     /\ last'.op \in IdOps
     /\ last'.err.text = "Loan with id ${id} not found")
        => /\ loansSlot' = loansSlot
           /\ auditSlot' = auditSlot
           /\ hist' = hist
C26_NotFoundWritesNothing == [][C26_Step]_vars

\* C26: deleteLoan was refused on a store that nothing was written to yet.
C26_Witness ==
    /\ last.op = "deleteLoan"
    /\ last.err.kind = "Error"
    /\ loansSlot = Absent
    /\ auditSlot = Absent

\* C27: every entry of the log with actionType approve has newStatus
\* approved and every entry with actionType reject has newStatus rejected.
C27_ActionTypeMatchesNewStatus ==
    \A i \in 1..Len(Log) :
        /\ Log[i].actionType = "approve" => Log[i].newStatus = "approved"
        /\ Log[i].actionType = "reject" => Log[i].newStatus = "rejected"

\* The entries of the log that carry the loanId, in log order.
EntriesOf(id) == SelectSeq(Log, LAMBDA e : e.loanId = id)

\* C28: while no entry was evicted or cleared, the entries of one loanId
\* form a chain: the first is the create entry with newStatus pending, each
\* later one's previousStatus is the newStatus of the one before it, a delete
\* entry is the last, and the newStatus of the last entry that is no delete
\* is the status stored for the loan if the loan is stored.
C28_AuditChain ==
    Log = hist =>
        \A id \in {Log[i].loanId : i \in 1..Len(Log)} :
            LET chain == EntriesOf(id)
                kept == SelectSeq(chain, LAMBDA e : e.actionType # "delete")
            IN /\ chain[1].actionType = "create"
               /\ chain[1].newStatus = "pending"
               /\ \A k \in 2..Len(chain) :
                     chain[k].previousStatus = chain[k - 1].newStatus
               /\ \A k \in 1..Len(chain) :
                     chain[k].actionType = "delete" => k = Len(chain)
               /\ \A j \in 1..Len(Loans) :
                     Loans[j].id = id =>
                         kept[Len(kept)].newStatus = Loans[j].status

\* C29: getLoans and getAuditLog return an array whatever their slot holds,
\* and no loan operation and no createAuditLogEntry fails with a TypeError on
\* what they return.
C29_ReadsAlwaysReturnArray ==
    /\ last.op \in {"getLoans", "getAuditLog"} => last.list.array
    /\ last.err.kind # "TypeError"

\* C30: a successful createLoanApplication on a loans slot that does not
\* parse leaves a collection of the new loan alone; an entry appended to an
\* audit slot that does not parse leaves a log of that entry alone.
C30_Step ==
    /\ (loansSlot.kind = "unparsable"
            /\ Returned({"createLoanApplication"}))
          => /\ Len(getLoans(loansSlot')) = 1
             /\ getLoans(loansSlot')[1].id = last'.ret.id
             /\ loansSlot'.kind = "array"
    /\ (auditSlot.kind = "unparsable"
            /\ Returned(LoanOps \cup {"createAuditLogEntry"}))
          => /\ auditSlot'.kind = "array"
             /\ Len(getAuditLog(auditSlot')) = 1
             /\ Appended.timestamp = now
             /\ Appended.loanId = (IF last'.op = "createLoanApplication"
                                   THEN last'.ret.id ELSE last'.id)
C30_WriteAfterFailedReadStartsOver == [][C30_Step]_vars

\* C30: the first write to the store found unparsable was a successful
\* createLoanApplication, which left one loan and one entry.
C30_Witness ==
    /\ last.op = "createLoanApplication"
    /\ last.err = NoError
    /\ steps = 2
    /\ Loans = <<last.ret>>
    /\ Len(Log) = 1
    /\ Log[1].loanId = last.ret.id

(***************************************************************************)
(* Callers that share the storage.                                         *)
(***************************************************************************)
SavesLoans(t) == tabs[t].pc = "loansRead" /\ tabs'[t].pc = "loansSaved"
SavesLog(t) == tabs[t].pc = "logRead" /\ tabs'[t].pc = "logSaved"
Returned_Create(t) ==
    /\ tabs[t].pc = "idle"
    /\ tabs[t].call.op = "createLoanApplication"
    /\ tabs[t].call.err = NoError

\* C21: a caller's write puts into the slot the collection it computed from
\* its own earlier read and nothing else, whatever another caller has stored
\* in between: the loans slot holds exactly the writer's array, the audit
\* slot exactly the writer's entries (cut to the newest MAX_ENTRIES).  So
\* the later of two writes made from one snapshot replaces the earlier, and
\* the earlier caller's loan, status change or entry is absent from storage.
C21_Step ==
    \A t \in Tabs :
        /\ SavesLoans(t) => getLoans(loansSlot') = tabs[t].callLoans
        /\ SavesLog(t) =>
               getAuditLog(auditSlot') = saveAuditLog(tabs[t].callEntries).arr

C21_WritesReplaceTheSlot == [][C21_Step]_vars

\* Both tabs have created a loan, each call returned its loan, the two ids
\* differ, and the storage holds one loan only.
C21_Witness ==
    \E t, u \in Tabs :
        /\ t # u
        /\ Returned_Create(t)
        /\ Returned_Create(u)
        /\ tabs[t].call.ret.id # tabs[u].call.ret.id
        /\ Len(Loans) = 1
        /\ Loans[1].id = tabs[u].call.ret.id

Between(t) == tabs[t].pc \in {"loansSaved", "logRead"}
Stops(t) == tabs'[t].pc = "closed"
Fails(t) == tabs'[t].pc = "idle" /\ tabs'[t].call.err # NoError

\* C22: in a call the audit slot is written only after the loans slot (the
\* call reads the log only once its loans are saved, and writes the log only
\* after that read), and when the call stops or fails between the two
\* writes both slots stay as they are: the loans as written, the log with
\* nothing added for the call.
C22_Step ==
    \A t \in Tabs :
        /\ tabs'[t].pc # tabs[t].pc /\ tabs'[t].pc = "loansSaved" =>
               /\ tabs[t].pc = "loansRead"
               /\ loansSlot' = saveLoans(tabs[t].callLoans)
               /\ auditSlot' = auditSlot
        /\ tabs'[t].pc # tabs[t].pc /\ tabs'[t].pc = "logRead" =>
               tabs[t].pc = "loansSaved"
        /\ tabs'[t].pc # tabs[t].pc /\ tabs'[t].pc = "logSaved" =>
               /\ tabs[t].pc = "logRead"
               /\ loansSlot' = loansSlot
        /\ Between(t) /\ (Stops(t) \/ Fails(t)) =>
               /\ loansSlot' = loansSlot
               /\ auditSlot' = auditSlot

C22_LoansWrittenFirstAndNeverRolledBack == [][C22_Step]_vars

\* One tab is closed and the other has done nothing, a loan is in storage
\* and no entry was ever written: the tab was closed after its
\* createLoanApplication saved the loans and before it saved the log.
C22_Witness ==
    \E t \in Tabs :
        /\ tabs[t].pc = "closed"
        /\ Len(Loans) = 1
        /\ Loans[1].status = "pending"
        /\ auditSlot = Absent
        /\ \A u \in Tabs \ {t} : tabs[u] = IdleTab

(***************************************************************************)
(* The handlers of the page.                                               *)
(***************************************************************************)
HandlerEnds(t) ==
    \/ tabs[t].pc = "logSaved" /\ tabs'[t].pc = "idle"
    \/ tabs'[t].pc = "idle" /\ tabs'[t].call.err # NoError
                            /\ tabs'[t].call # tabs[t].call

\* C23: when a handler that called createLoanApplication, updateLoanStatus,
\* autoDecideLoan or deleteLoan ends, no error has left it, the message of
\* the error its call threw is shown, and the list shown is what getLoans
\* returns.
C23_Step ==
    \A t \in Tabs :
        HandlerEnds(t) =>
            /\ tabs'[t].uncaught = NoError
            /\ tabs'[t].call.err # NoError =>
                   tabs'[t].error = tabs'[t].call.err.text
            /\ tabs'[t].loans = getLoans(loansSlot')

C23_HandlersCatchAndRefresh == [][C23_Step]_vars

StatusOps == {"updateLoanStatus", "autoDecideLoan"}
Clicks(t) == tabs[t].pc = "idle" /\ tabs'[t].call # tabs[t].call
SameLoans == [i \in 1..Len(Loans) |-> Loans[i].id] =
             [i \in 1..Len(getLoans(loansSlot')) |-> getLoans(loansSlot')[i].id]

\* C24: a click on approve, reject or auto-decide is on a row shown as
\* pending, a click on delete on any row shown; and with one tab, a step
\* that changes the status of a stored loan changes it from pending to
\* approved or rejected, so no loan changes its status twice.
C24_Step ==
    /\ \A t \in Tabs :
           Clicks(t) /\ tabs'[t].call.op \in StatusOps =>
               \E i \in 1..Len(tabs[t].loans) :
                   /\ tabs[t].loans[i].id = tabs'[t].call.id
                   /\ tabs[t].loans[i].status = "pending"
    /\ SameLoans =>
           \A i \in 1..Len(Loans) :
               getLoans(loansSlot')[i].status # Loans[i].status =>
                   /\ Loans[i].status = "pending"
                   /\ getLoans(loansSlot')[i].status \in
                          {"approved", "rejected"}

C24_StatusChangesOnceThroughTheUI == [][C24_Step]_vars

====
